---- MODULE Spec2Model ----
(***************************************************************************)
(* A model of the Novello book-tracking backend (src/backend/server.py):   *)
(* the three MongoDB collections (users, user_sessions, books), the        *)
(* session resolution of get_current_user and the request handlers of the  *)
(* auth and book endpoints.  A handler is one atomic action, except where  *)
(* requests are studied as they interleave (register and process_session   *)
(* step by step) and where a handler waits for a catalog provider (the     *)
(* ISBN lookup); the JSON answer of the last handler is kept in `response`.*)
(*                                                                         *)
(* Conventions.  An Optional value is None (<<>>) or Some(x) (<<x>>).      *)
(* Datetimes are whole days since the server started (`now`).  A float is  *)
(* an exact fraction <<numerator, denominator>> in lowest terms.           *)
(* Of the book fields the handlers only copy, isbn stands for the strings   *)
(* (isbn, title, author, coverImage); notes, rating and created_at are     *)
(* left out of the documents.                                              *)
(***************************************************************************)
EXTENDS Integers, Sequences, FiniteSets, TLC

VARIABLES
    users,          \* db.users: set of user documents
    user_sessions,  \* db.user_sessions: set of session documents
    books,          \* db.books: set of book documents
    now,            \* datetime.now(timezone.utc), in days
    issued,         \* number of session tokens drawn from secrets.token_urlsafe
    inserted,       \* number of ObjectIds handed out by db.books.insert_one
    createdBy,      \* history: book _id -> the user whose session added it
    inflight,       \* requests suspended at an await, with their local variables
    calls,          \* the catalog providers the latest ISBN lookup has called
    response        \* the answer of the last handler

vars == <<users, user_sessions, books, now, issued, inserted, createdBy, inflight,
          calls, response>>

(***************************************************************************)
(* Bounds and input domains                                                *)
(***************************************************************************)
MaxPage == 2
MaxTime == 8

\* timedelta(days=7)
SessionDays == 7

None == <<>>
Some(x) == <<x>>

\* the values secrets.token_urlsafe / ObjectId() return, in the order drawn
UserIds == <<"user_1", "user_2">>
Tokens == <<"tok_1", "tok_2", "tok_3">>
ObjectIds == <<"b1", "b2">>

Emails == {"ann@x.org", "bob@x.org"}
Passwords == {"pw1", "pw2"}

\* a token no session was ever issued for, and a book id ObjectId() rejects
UnknownToken == "tok_x"
MalformedId == "not-an-id"

Range(s) == {s[i] : i \in DOMAIN s}

StatusValues == {"want_to_read", "currently_reading", "read"}
\* status is declared `str`: any string is accepted
StatusIn == StatusValues \cup {"abandoned"}

(***************************************************************************)
(* Floats as exact fractions                                               *)
(***************************************************************************)
Abs(n) == IF n < 0 THEN -n ELSE n

RECURSIVE GCD(_, _)
GCD(a, b) == IF b = 0 THEN a ELSE GCD(b, a % b)

\* n/d in lowest terms, d > 0
Frac(n, d) == LET g == GCD(Abs(n), d) IN <<n \div g, d \div g>>

FracLess(x, y) == x[1] * y[2] < y[1] * x[2]
FracMin(x, y) == IF FracLess(y, x) THEN y ELSE x

Hundred == Frac(100, 1)
Zero == Frac(0, 1)

(***************************************************************************)
(* Requests and session resolution                                         *)
(***************************************************************************)
\* what a request carries: the session_token cookie and the token of an
\* "Authorization: Bearer <token>" header, each possibly absent
Request(cookie, bearer) == [cookie |-> cookie, bearer |-> bearer]
NoCredentials == Request(None, None)

\* Python's `not session_token`: None and the empty string
Falsy(tok) == tok = None \/ tok = Some("")

\* a get_current_user that reads the Authorization header first
SessionTokenHeaderFirst(req) ==
    LET tok == IF Falsy(req.bearer) THEN req.cookie ELSE req.bearer
    IN  IF Falsy(tok) THEN None ELSE tok

\* lines 126-135: the cookie first, the header only when the cookie is
\* absent or empty; no token when what is left is absent or empty
SessionToken(req) ==
    LET tok == IF Falsy(req.cookie) THEN req.bearer ELSE req.cookie
    IN  IF Falsy(tok) THEN None ELSE tok

\* db.user_sessions.find_one({"session_token": t})
FindSession(t) == {s \in user_sessions : s.session_token = t}

\* line 143: session["expires_at"] < datetime.now(timezone.utc)
Expired(session, t) == session.expires_at < t

\* db.users.find_one({"_id": id})
FindUser(id) == {u \in users : u._id = id}

\* the session document a request's token finds, None when there is none
SessionOf(req) ==
    LET tok == SessionToken(req)
    IN  IF tok = None THEN None
        ELSE IF FindSession(tok[1]) = {} THEN None
        ELSE Some(CHOOSE s \in FindSession(tok[1]) : TRUE)

\* get_current_user: the user document, or None
get_current_user(req) ==
    LET s == SessionOf(req)
    IN  IF s = None THEN None
        ELSE IF Expired(s[1], now) THEN None
        ELSE IF FindUser(s[1].user_id) = {} THEN None
        ELSE Some(CHOOSE u \in FindUser(s[1].user_id) : TRUE)

\* user.id of the user a request resolves to, None when there is none
SessionUserId(req) ==
    LET user == get_current_user(req)
    IN  IF user = None THEN None ELSE Some(user[1]._id)

\* get_current_user's effect on db.user_sessions (line 144): an expired
\* session found by the request is deleted
SessionsAfterAuth(req) ==
    LET s == SessionOf(req)
    IN  IF s # None /\ Expired(s[1], now)
        THEN user_sessions \ FindSession(s[1].session_token)
        ELSE user_sessions

\* sessions that are all given the first token again
NewSessionReused(user_id, token) ==
    [user_id |-> user_id, session_token |-> Tokens[1],
     expires_at |-> now + SessionDays]

\* the session document created by register, login and process_session
NewSession(user_id, token) ==
    [user_id |-> user_id, session_token |-> token,
     expires_at |-> now + SessionDays]

\* pwd_context.hash / pwd_context.verify (bcrypt): one-way, verified by
\* hashing again
Hash(password) == <<"bcrypt", password>>
\* a verify that accepts any password
VerifyAny(password, hash) == TRUE
Verify(password, hash) == hash = Hash(password)

Reply(op, status, body) == [op |-> op, status |-> status, body |-> body]

(***************************************************************************)
(* Auth handlers                                                           *)
(***************************************************************************)
\* a register that never finds the email taken
FindEmailNever(email) == {}

\* db.users.find_one({"email": email})
FindEmail(email) == {u \in users : u.email = email}

\* POST /auth/register
register(email, password, name) ==
    IF FindEmail(email) # {}
    THEN /\ response' = Reply("register", 400, "Email already registered")
         /\ UNCHANGED <<users, user_sessions, books, now, issued, inserted, createdBy, inflight, calls>>
    ELSE LET user_id == UserIds[Cardinality(users) + 1]
             token == Tokens[issued + 1]
         IN  /\ users' = users \cup
                    {[_id |-> user_id, email |-> email, name |-> name,
                      picture |-> None,
                      password_hash |-> Some(Hash(password))]}
             /\ user_sessions' = user_sessions \cup {NewSession(user_id, token)}
             /\ issued' = issued + 1
             /\ response' = Reply("register", 200,
                    [id |-> user_id, email |-> email, name |-> name,
                     set_cookie |-> token])
             /\ UNCHANGED <<books, now, inserted, createdBy, inflight, calls>>

\* a login that keeps one session per user: it removes the user's earlier ones
login_single_session(email, password) ==
    LET found == FindEmail(email)
        user == CHOOSE u \in found : TRUE
    IN  IF found = {} \/ user.password_hash = None
                     \/ ~Verify(password, user.password_hash[1])
        THEN /\ response' = Reply("login", 401, "Invalid credentials")
             /\ UNCHANGED <<users, user_sessions, books, now, issued, inserted, createdBy, inflight, calls>>
        ELSE LET token == Tokens[issued + 1]
             IN  /\ user_sessions' =
                        {s \in user_sessions : s.user_id # user._id}
                            \cup {NewSession(user._id, token)}
                 /\ issued' = issued + 1
                 /\ response' = Reply("login", 200,
                        [id |-> user._id, email |-> user.email, name |-> user.name,
                         set_cookie |-> token])
                 /\ UNCHANGED <<users, books, now, inserted, createdBy, inflight, calls>>

\* POST /auth/login
login(email, password) ==
    LET found == FindEmail(email)
        user == CHOOSE u \in found : TRUE
    IN  IF found = {} \/ user.password_hash = None
        THEN /\ response' = Reply("login", 401, "Invalid credentials")
             /\ UNCHANGED <<users, user_sessions, books, now, issued, inserted, createdBy, inflight, calls>>
        ELSE IF ~Verify(password, user.password_hash[1])
        THEN /\ response' = Reply("login", 401, "Invalid credentials")
             /\ UNCHANGED <<users, user_sessions, books, now, issued, inserted, createdBy, inflight, calls>>
        ELSE LET token == Tokens[issued + 1]
             IN  /\ user_sessions' = user_sessions \cup {NewSession(user._id, token)}
                 /\ issued' = issued + 1
                 /\ response' = Reply("login", 200,
                        [id |-> user._id, email |-> user.email, name |-> user.name,
                         set_cookie |-> token])
                 /\ UNCHANGED <<users, books, now, inserted, createdBy, inflight, calls>>

\* POST /auth/logout: reads the cookie only
logout(req) ==
    /\ user_sessions' = IF req.cookie # None
                        THEN user_sessions \ FindSession(req.cookie[1])
                        ELSE user_sessions
    /\ response' = Reply("logout", 200, "Logged out")
    /\ UNCHANGED <<users, books, now, issued, inserted, createdBy, inflight, calls>>

\* GET /auth/me: require_auth
get_me(req) ==
    LET user == get_current_user(req)
    IN  /\ user_sessions' = SessionsAfterAuth(req)
        /\ response' = IF user = None
                       THEN Reply("get_me", 401, "Not authenticated")
                       ELSE Reply("get_me", 200,
                                [id |-> user[1]._id, email |-> user[1].email,
                                 name |-> user[1].name])
        /\ UNCHANGED <<users, books, now, issued, inserted, createdBy, inflight, calls>>

\* resp.json() of the identity collaborator: each key possibly absent
SessionData(email, name, picture) ==
    [email |-> email, name |-> name, picture |-> picture]

\* the outcome of the call to the collaborator (lines 252-261): ok is FALSE
\* when client.get, raise_for_status or resp.json raised
Fetched(ok, session_data) == [ok |-> ok, session_data |-> session_data]
FetchError == Fetched(FALSE, SessionData(None, None, None))

\* the user document process_session inserts (lines 269-275)
FederatedUser(user_id, session_data) ==
    [_id |-> user_id, email |-> session_data.email[1],
     name |-> session_data.name[1], picture |-> session_data.picture,
     password_hash |-> None]

\* the answer to an exception no handler catches
ServerError(op) == Reply(op, 500, "Internal Server Error")

\* POST /auth/session; session_id is the X-Session-ID header
process_session(session_id, fetched) ==
    LET session_data == fetched.session_data
        found == FindEmail(session_data.email[1])
        user_id == IF found = {} THEN UserIds[Cardinality(users) + 1]
                   ELSE (CHOOSE u \in found : TRUE)._id
        token == Tokens[issued + 1]
        same == /\ UNCHANGED <<users, user_sessions, books, now, issued>>
                /\ UNCHANGED <<inserted, createdBy, inflight, calls>>
    IN  IF session_id = None
        THEN /\ response' = Reply("process_session", 400, "No session_id provided")
             /\ same
        ELSE IF ~fetched.ok
        THEN /\ response' = Reply("process_session", 401, "Invalid session")
             /\ same
        ELSE IF session_data.email = None
        THEN \* line 264: session_data["email"] raises KeyError
             /\ response' = ServerError("process_session")
             /\ same
        ELSE IF found = {} /\ session_data.name = None
        THEN \* line 272: session_data["name"] raises KeyError
             /\ response' = ServerError("process_session")
             /\ same
        ELSE /\ users' = IF found = {}
                         THEN users \cup {FederatedUser(user_id, session_data)}
                         ELSE users
             /\ user_sessions' = user_sessions \cup {NewSession(user_id, token)}
             /\ issued' = issued + 1
             /\ response' =
                    IF session_data.name = None
                    THEN \* line 302: KeyError after the session was inserted
                         ServerError("process_session")
                    ELSE Reply("process_session", 200,
                             [id |-> user_id, email |-> session_data.email[1],
                              name |-> session_data.name[1],
                              picture |-> session_data.picture,
                              session_token |-> token])
             /\ UNCHANGED <<books, now, inserted, createdBy, inflight, calls>>

(***************************************************************************)
(* register and process_session step by step.  A handler runs until its    *)
(* next await on the database and is suspended there; other requests run   *)
(* in between.                                                             *)
(***************************************************************************)
\* a suspended request: the step it resumes at and its local variables
Suspended(rid, op, pc, email, name, picture, password, user_id) ==
    [rid |-> rid, op |-> op, pc |-> pc, email |-> email, name |-> name,
     picture |-> picture, password |-> password, user_id |-> user_id]

FreeRid == CHOOSE r \in 1..(Cardinality(inflight) + 1) :
               \A q \in inflight : q.rid # r

\* register up to the answer of find_one (lines 167-169)
register_lookup(email, password, name) ==
    IF FindEmail(email) # {}
    THEN /\ response' = Reply("register", 400, "Email already registered")
         /\ UNCHANGED <<users, user_sessions, books, now, issued>>
         /\ UNCHANGED <<inserted, createdBy, inflight, calls>>
    ELSE /\ inflight' = inflight \cup
                {Suspended(FreeRid, "register", "insert_user", email,
                           Some(name), None, Some(password), None)}
         /\ UNCHANGED <<users, user_sessions, books, now, issued>>
         /\ UNCHANGED <<inserted, createdBy, response, calls>>

\* process_session up to the answer of find_one (lines 246-266)
process_session_lookup(session_id, fetched) ==
    LET session_data == fetched.session_data
        found == FindEmail(session_data.email[1])
        same == /\ UNCHANGED <<users, user_sessions, books, now, issued>>
                /\ UNCHANGED <<inserted, createdBy, inflight, calls>>
    IN  IF session_id = None
        THEN /\ response' = Reply("process_session", 400, "No session_id provided")
             /\ same
        ELSE IF ~fetched.ok
        THEN /\ response' = Reply("process_session", 401, "Invalid session")
             /\ same
        ELSE IF session_data.email = None
        THEN /\ response' = ServerError("process_session")
             /\ same
        ELSE IF found = {} /\ session_data.name = None
        THEN /\ response' = ServerError("process_session")
             /\ same
        ELSE /\ inflight' = inflight \cup
                    {IF found = {}
                     THEN Suspended(FreeRid, "process_session", "insert_user",
                                    session_data.email[1], session_data.name,
                                    session_data.picture, None, None)
                     ELSE Suspended(FreeRid, "process_session", "insert_session",
                                    session_data.email[1], session_data.name,
                                    session_data.picture, None,
                                    Some((CHOOSE u \in found : TRUE)._id))}
             /\ UNCHANGED <<users, user_sessions, books, now, issued>>
             /\ UNCHANGED <<inserted, createdBy, response, calls>>

\* db.users.insert_one of a suspended request (lines 176-182, 268-275)
insert_user(q) ==
    LET user_id == UserIds[Cardinality(users) + 1]
    IN  /\ q.pc = "insert_user"
        /\ users' = users \cup
               {[_id |-> user_id, email |-> q.email, name |-> q.name[1],
                 picture |-> q.picture,
                 password_hash |-> IF q.password = None THEN None
                                   ELSE Some(Hash(q.password[1]))]}
        /\ inflight' = (inflight \ {q}) \cup
               {[q EXCEPT !.pc = "insert_session", !.user_id = Some(user_id)]}
        /\ UNCHANGED <<user_sessions, books, now, issued>>
        /\ UNCHANGED <<inserted, createdBy, response, calls>>

\* db.user_sessions.insert_one of a suspended request and its answer
\* (lines 184-204, 279-305)
insert_session(q) ==
    LET token == Tokens[issued + 1]
    IN  /\ q.pc = "insert_session"
        /\ user_sessions' = user_sessions \cup {NewSession(q.user_id[1], token)}
        /\ issued' = issued + 1
        /\ inflight' = inflight \ {q}
        /\ response' =
               IF q.name = None THEN ServerError(q.op)
               ELSE IF q.op = "register"
               THEN Reply("register", 200,
                        [id |-> q.user_id[1], email |-> q.email,
                         name |-> q.name[1], set_cookie |-> token])
               ELSE Reply("process_session", 200,
                        [id |-> q.user_id[1], email |-> q.email,
                         name |-> q.name[1], picture |-> q.picture,
                         session_token |-> token])
        /\ UNCHANGED <<users, books, now, inserted, createdBy, calls>>

\* the passage of time between two requests
Tick ==
    /\ now < MaxTime
    /\ now' = now + 1
    /\ UNCHANGED <<users, user_sessions, books, issued, inserted, createdBy, response, inflight, calls>>

(***************************************************************************)
(* Book handlers.  For each handler, <handler>_result is what it does to   *)
(* db.books and what it answers in the current state; the action applies   *)
(* it, together with get_current_user's effect on db.user_sessions.        *)
(***************************************************************************)
\* ObjectId(book_id): raises for a string that is no ObjectId
IsObjectId(book_id) == book_id \in Range(ObjectIds)

\* a MongoDB filter on db.books; a key that is None is not in the filter
Query(id, user_id, status) == [_id |-> id, user_id |-> user_id, status |-> status]

Matches(book, query) ==
    /\ query._id # None => book._id = query._id[1]
    /\ query.user_id # None => book.user_id = query.user_id
    /\ query.status # None => book.status = query.status[1]

\* db.books.find(query)
Find(query) == {b \in books : Matches(b, query)}

\* handlers that forget the user_id key of the filter
UserScopeForgotten(user) == None

\* the handlers' `if user: query["user_id"] = user.id`
UserScope(user) == IF user # None THEN Some(user[1]._id) ELSE None

\* book_helper: the JSON form of a book document
book_helper(book) ==
    [id |-> book._id, isbn |-> book.isbn, totalPages |-> book.totalPages,
     currentPage |-> book.currentPage, status |-> book.status,
     progress |-> book.progress, dateAdded |-> book.dateAdded,
     dateFinished |-> book.dateFinished, user_id |-> book.user_id]

\* the Book model as parsed from the request body
Book(isbn, totalPages, currentPage, status, progress, dateAdded, dateFinished, user_id) ==
    [isbn |-> isbn, totalPages |-> totalPages, currentPage |-> currentPage,
     status |-> status, progress |-> progress, dateAdded |-> dateAdded,
     dateFinished |-> dateFinished, user_id |-> user_id]

\* the BookUpdate model: every field Optional
BookUpdate(currentPage, status, dateFinished) ==
    [currentPage |-> currentPage, status |-> status, dateFinished |-> dateFinished]

Result(store, reply) == [books |-> store, response |-> reply]

\* the common part of the book handlers' actions
Handle(req, result) ==
    /\ user_sessions' = SessionsAfterAuth(req)
    /\ books' = result.books
    /\ response' = result.response
    /\ UNCHANGED <<users, now, issued, inflight, calls>>

\* POST /books
add_book_result(req, book) ==
    LET user == get_current_user(req)
        doc == [_id |-> ObjectIds[inserted + 1], isbn |-> book.isbn,
                totalPages |-> book.totalPages,
                currentPage |-> book.currentPage, status |-> book.status,
                progress |-> book.progress, dateAdded |-> book.dateAdded,
                dateFinished |-> book.dateFinished,
                user_id |-> IF user # None THEN Some(user[1]._id) ELSE book.user_id]
    IN  Result(books \cup {doc}, Reply("add_book", 200, book_helper(doc)))

add_book(req, book) ==
    /\ Handle(req, add_book_result(req, book))
    /\ inserted' = inserted + 1
    /\ createdBy' = createdBy @@ (ObjectIds[inserted + 1] :> SessionUserId(req))

\* GET /books (the search filter reads fields the model leaves out)
get_all_books_result(req) ==
    LET query == Query(None, UserScope(get_current_user(req)), None)
    IN  Result(books, Reply("get_all_books", 200,
                            {book_helper(b) : b \in Find(query)}))

get_all_books(req) ==
    /\ Handle(req, get_all_books_result(req))
    /\ UNCHANGED <<inserted, createdBy>>

\* GET /books/status/{status}
get_books_by_status_result(req, status) ==
    LET query == Query(None, UserScope(get_current_user(req)), Some(status))
    IN  Result(books, Reply("get_books_by_status", 200,
                            {book_helper(b) : b \in Find(query)}))

get_books_by_status(req, status) ==
    /\ Handle(req, get_books_by_status_result(req, status))
    /\ UNCHANGED <<inserted, createdBy>>

\* GET /books/{book_id}: the 404 raised inside the try block is an Exception,
\* which the handler's `except Exception` turns into the 400
get_book_result(req, book_id) ==
    LET query == Query(Some(book_id), UserScope(get_current_user(req)), None)
    IN  IF ~IsObjectId(book_id)
        THEN Result(books, Reply("get_book", 400, "Invalid book ID"))
        ELSE IF Find(query) # {}
        THEN Result(books, Reply("get_book", 200,
                                 book_helper(CHOOSE b \in Find(query) : TRUE)))
        ELSE Result(books, Reply("get_book", 400, "Invalid book ID"))

get_book(req, book_id) ==
    /\ Handle(req, get_book_result(req, book_id))
    /\ UNCHANGED <<inserted, createdBy>>

\* update_book with the status block placed before the currentPage block
UpdateDataStatusFirst(book, book_update, t) ==
    LET d0 == [currentPage |-> None, progress |-> None,
               status |-> None, dateFinished |-> None]
        d1 == IF book_update.status # None
              THEN IF book_update.status[1] = "read"
                   THEN [d0 EXCEPT !.status = book_update.status,
                                   !.currentPage = Some(book.totalPages),
                                   !.progress = Some(Hundred),
                                   !.dateFinished = Some(Some(t))]
                   ELSE [d0 EXCEPT !.status = book_update.status]
              ELSE d0
        d2 == IF book_update.currentPage # None
              THEN [d1 EXCEPT
                      !.currentPage = book_update.currentPage,
                      !.progress =
                          IF book.totalPages > 0
                          THEN Some(FracMin(Frac(book_update.currentPage[1] * 100,
                                                 book.totalPages), Hundred))
                          ELSE @]
              ELSE d1
        d3 == IF book_update.dateFinished # None
              THEN [d2 EXCEPT !.dateFinished = Some(book_update.dateFinished)]
              ELSE d2
    IN  d3

\* update_book with the explicit dateFinished applied before the status block
UpdateDataNowWins(book, book_update, t) ==
    LET d0 == [currentPage |-> None, progress |-> None,
               status |-> None, dateFinished |-> None]
        d1 == IF book_update.currentPage # None
              THEN [d0 EXCEPT
                      !.currentPage = book_update.currentPage,
                      !.progress =
                          IF book.totalPages > 0
                          THEN Some(FracMin(Frac(book_update.currentPage[1] * 100,
                                                 book.totalPages), Hundred))
                          ELSE None]
              ELSE d0
        d2 == IF book_update.dateFinished # None
              THEN [d1 EXCEPT !.dateFinished = Some(book_update.dateFinished)]
              ELSE d1
        d3 == IF book_update.status # None
              THEN IF book_update.status[1] = "read"
                   THEN [d2 EXCEPT !.status = book_update.status,
                                   !.currentPage = Some(book.totalPages),
                                   !.progress = Some(Hundred),
                                   !.dateFinished = Some(Some(t))]
                   ELSE [d2 EXCEPT !.status = book_update.status]
              ELSE d2
    IN  d3

\* update_book that resets the reading state when a book leaves "read"
UpdateDataResetOnLeave(book, book_update, t) ==
    LET d0 == [currentPage |-> None, progress |-> None,
               status |-> None, dateFinished |-> None]
        d1 == IF book_update.currentPage # None
              THEN [d0 EXCEPT
                      !.currentPage = book_update.currentPage,
                      !.progress =
                          IF book.totalPages > 0
                          THEN Some(FracMin(Frac(book_update.currentPage[1] * 100,
                                                 book.totalPages), Hundred))
                          ELSE None]
              ELSE d0
        d2 == IF book_update.status # None
              THEN IF book_update.status[1] = "read"
                   THEN [d1 EXCEPT !.status = book_update.status,
                                   !.currentPage = Some(book.totalPages),
                                   !.progress = Some(Hundred),
                                   !.dateFinished = Some(Some(t))]
                   ELSE IF book.status = "read"
                   THEN [d1 EXCEPT !.status = book_update.status,
                                   !.currentPage = Some(0),
                                   !.progress = Some(Zero),
                                   !.dateFinished = Some(None)]
                   ELSE [d1 EXCEPT !.status = book_update.status]
              ELSE d1
        d3 == IF book_update.dateFinished # None
              THEN [d2 EXCEPT !.dateFinished = Some(book_update.dateFinished)]
              ELSE d2
    IN  d3

\* update_book without the min(progress, 100)
UpdateDataNoClamp(book, book_update, t) ==
    LET d0 == [currentPage |-> None, progress |-> None,
               status |-> None, dateFinished |-> None]
        d1 == IF book_update.currentPage # None
              THEN [d0 EXCEPT
                      !.currentPage = book_update.currentPage,
                      !.progress =
                          IF book.totalPages > 0
                          THEN Some(Frac(book_update.currentPage[1] * 100,
                                         book.totalPages))
                          ELSE None]
              ELSE d0
        d2 == IF book_update.status # None
              THEN IF book_update.status[1] = "read"
                   THEN [d1 EXCEPT !.status = book_update.status,
                                   !.currentPage = Some(book.totalPages),
                                   !.progress = Some(Hundred),
                                   !.dateFinished = Some(Some(t))]
                   ELSE [d1 EXCEPT !.status = book_update.status]
              ELSE d1
        d3 == IF book_update.dateFinished # None
              THEN [d2 EXCEPT !.dateFinished = Some(book_update.dateFinished)]
              ELSE d2
    IN  d3

\* lines 544-560: the $set document update_book builds; a key that is None
\* is not in it
UpdateData(book, book_update, t) ==
    LET d0 == [currentPage |-> None, progress |-> None,
               status |-> None, dateFinished |-> None]
        d1 == IF book_update.currentPage # None
              THEN [d0 EXCEPT
                      !.currentPage = book_update.currentPage,
                      !.progress =
                          IF book.totalPages > 0
                          THEN Some(FracMin(Frac(book_update.currentPage[1] * 100,
                                                 book.totalPages), Hundred))
                          ELSE None]
              ELSE d0
        d2 == IF book_update.status # None
              THEN IF book_update.status[1] = "read"
                   THEN [d1 EXCEPT !.status = book_update.status,
                                   !.currentPage = Some(book.totalPages),
                                   !.progress = Some(Hundred),
                                   !.dateFinished = Some(Some(t))]
                   ELSE [d1 EXCEPT !.status = book_update.status]
              ELSE d1
        d3 == IF book_update.dateFinished # None
              THEN [d2 EXCEPT !.dateFinished = Some(book_update.dateFinished)]
              ELSE d2
    IN  d3

\* an update that writes the model's default for a status not supplied
ApplySetDefaults(book, data) ==
    [book EXCEPT
       !.currentPage = IF data.currentPage # None THEN data.currentPage[1] ELSE @,
       !.progress = IF data.progress # None THEN data.progress[1] ELSE @,
       !.status = IF data.status # None THEN data.status[1] ELSE "want_to_read",
       !.dateFinished = IF data.dateFinished # None THEN data.dateFinished[1] ELSE @]

\* {"$set": update_data} applied to a document
ApplySet(book, data) ==
    [book EXCEPT
       !.currentPage = IF data.currentPage # None THEN data.currentPage[1] ELSE @,
       !.progress = IF data.progress # None THEN data.progress[1] ELSE @,
       !.status = IF data.status # None THEN data.status[1] ELSE @,
       !.dateFinished = IF data.dateFinished # None THEN data.dateFinished[1] ELSE @]

EmptySet(data) ==
    /\ data.currentPage = None
    /\ data.progress = None
    /\ data.status = None
    /\ data.dateFinished = None

\* PUT /books/{book_id}.  A body that supplies no field at all makes the
\* $set document empty: MongoDB before 5.0 answers that with a write error
\* (the handler's 400), later servers accept it; `rejectsEmptySet` is that
\* answer of the server.
update_book_result(req, book_id, book_update, rejectsEmptySet) ==
    LET query == Query(Some(book_id), UserScope(get_current_user(req)), None)
        found == Find(query)
        book == CHOOSE b \in found : TRUE
        data == UpdateData(book, book_update, now)
        updated == ApplySet(book, data)
    IN  IF ~IsObjectId(book_id)
        THEN Result(books, Reply("update_book", 400, "Invalid book ID"))
        ELSE IF found = {}
        THEN Result(books, Reply("update_book", 404, "Book not found"))
        ELSE IF EmptySet(data) /\ rejectsEmptySet
        THEN Result(books, Reply("update_book", 400, "Invalid book ID"))
        ELSE Result((books \ {book}) \cup {updated},
                    Reply("update_book", 200, book_helper(updated)))

update_book(req, book_id, book_update, rejectsEmptySet) ==
    /\ Handle(req, update_book_result(req, book_id, book_update, rejectsEmptySet))
    /\ UNCHANGED <<inserted, createdBy>>

\* a delete_book that does not look at deleted_count
delete_book_unchecked(req, book_id) ==
    LET query == Query(Some(book_id), UserScope(get_current_user(req)), None)
        found == Find(query)
    IN  IF ~IsObjectId(book_id)
        THEN Result(books, Reply("delete_book", 400, "Invalid book ID"))
        ELSE Result(books \ found,
                    Reply("delete_book", 200, "Book deleted successfully"))

\* DELETE /books/{book_id}
delete_book_result(req, book_id) ==
    LET query == Query(Some(book_id), UserScope(get_current_user(req)), None)
        found == Find(query)
    IN  IF ~IsObjectId(book_id)
        THEN Result(books, Reply("delete_book", 400, "Invalid book ID"))
        ELSE IF found = {}
        THEN Result(books, Reply("delete_book", 404, "Book not found"))
        ELSE Result(books \ {CHOOSE b \in found : TRUE},
                    Reply("delete_book", 200, "Book deleted successfully"))

delete_book(req, book_id) ==
    /\ Handle(req, delete_book_result(req, book_id))
    /\ UNCHANGED <<inserted, createdBy>>

(***************************************************************************)
(* update_book step by step: the handler is suspended at find_one,         *)
(* update_one and the second find_one; other requests run in between.      *)
(***************************************************************************)
\* an update_book request and its local variables; pc is the database call
\* it is suspended in, "done" once it has answered
Updating(rid, pc, query, book, book_update, update_data) ==
    [rid |-> rid, op |-> "update_book", pc |-> pc, query |-> query,
     book |-> book, book_update |-> book_update, update_data |-> update_data]

\* an update_one that writes the document as the handler read it, changed
WrittenFromRead(doc, q) == ApplySet(q.book, q.update_data)

\* line 566: update_one(query, {"$set": update_data}) on the stored document
Written(doc, q) == ApplySet(doc, q.update_data)

\* lines 533-564: up to the answer of the first find_one
update_book_find(req, book_id, book_update) ==
    LET query == Query(Some(book_id), UserScope(get_current_user(req)), None)
        found == Find(query)
        book == CHOOSE b \in found : TRUE
    IN  /\ user_sessions' = SessionsAfterAuth(req)
        /\ IF ~IsObjectId(book_id)
           THEN /\ response' = Reply("update_book", 400, "Invalid book ID")
                /\ UNCHANGED inflight
           ELSE IF found = {}
           THEN /\ response' = Reply("update_book", 404, "Book not found")
                /\ UNCHANGED inflight
           ELSE /\ inflight' = inflight \cup
                       {Updating(FreeRid, "update_one", query, book, book_update,
                                 UpdateData(book, book_update, now))}
                /\ UNCHANGED response
        /\ UNCHANGED <<users, books, now, issued, inserted, createdBy, calls>>

\* line 566: the answer of update_one
update_book_write(q, rejectsEmptySet) ==
    /\ q.pc = "update_one"
    /\ IF EmptySet(q.update_data) /\ rejectsEmptySet
       THEN /\ response' = Reply("update_book", 400, "Invalid book ID")
            /\ inflight' = (inflight \ {q}) \cup {[q EXCEPT !.pc = "done"]}
            /\ UNCHANGED books
       ELSE /\ books' = {IF Matches(d, q.query) THEN Written(d, q) ELSE d :
                            d \in books}
            /\ inflight' = (inflight \ {q}) \cup {[q EXCEPT !.pc = "find_one"]}
            /\ UNCHANGED response
    /\ UNCHANGED <<users, user_sessions, now, issued, inserted, createdBy, calls>>

\* lines 567-568: the answer of the second find_one; book_helper(None)
\* raises TypeError, which line 573 turns into the 400
update_book_reread(q) ==
    LET found == Find(q.query)
    IN  /\ q.pc = "find_one"
        /\ response' =
               IF found = {}
               THEN Reply("update_book", 400, "Invalid book ID")
               ELSE Reply("update_book", 200,
                          book_helper(CHOOSE b \in found : TRUE))
        /\ inflight' = (inflight \ {q}) \cup {[q EXCEPT !.pc = "done"]}
        /\ UNCHANGED <<users, user_sessions, books, now, issued>>
        /\ UNCHANGED <<inserted, createdBy, calls>>

(***************************************************************************)
(* GET /stats                                                              *)
(***************************************************************************)
FracAdd(x, y) == Frac(x[1] * y[2] + y[1] * x[2], x[2] * y[2])

\* round(x, 1): to the nearest tenth, a tie to the even one
Round1(x) ==
    LET n == x[1] * 10
        q == n \div x[2]
        r == n - q * x[2]
        up == \/ 2 * r > x[2]
              \/ 2 * r = x[2] /\ q % 2 = 1
    IN  Frac(IF up THEN q + 1 ELSE q, 10)

\* sum(b["currentPage"] for b in ...)
RECURSIVE SumPages(_)
SumPages(all_books) ==
    IF all_books = {} THEN 0
    ELSE LET b == CHOOSE x \in all_books : TRUE
         IN  b.currentPage + SumPages(all_books \ {b})

\* sum(b["progress"] for b in all_books)
RECURSIVE SumProgress(_)
SumProgress(all_books) ==
    IF all_books = {} THEN Zero
    ELSE LET b == CHOOSE x \in all_books : TRUE
         IN  FracAdd(b.progress, SumProgress(all_books \ {b}))

\* line 615
Average(all_books) ==
    IF Cardinality(all_books) > 0
    THEN LET total == SumProgress(all_books)
         IN  Frac(total[1], total[2] * Cardinality(all_books))
    ELSE Zero

\* strftime("%Y-%m") of a day: months of DaysPerMonth days
DaysPerMonth == 30
MonthKey(day) == <<"%Y-%m", day \div DaysPerMonth>>

\* lines 617-622
BooksByMonth(all_books) ==
    LET finished == {b \in all_books : b.dateFinished # None}
        keys == {MonthKey(b.dateFinished[1]) : b \in finished}
    IN  [k \in keys |->
            Cardinality({b \in finished : MonthKey(b.dateFinished[1]) = k})]

ReadingStats(all_books) ==
    [total_books |-> Cardinality(all_books),
     books_read |-> Cardinality({b \in all_books : b.status = "read"}),
     books_reading |->
         Cardinality({b \in all_books : b.status = "currently_reading"}),
     books_to_read |->
         Cardinality({b \in all_books : b.status = "want_to_read"}),
     total_pages_read |->
         SumPages({b \in all_books :
                      b.status \in {"read", "currently_reading"}}),
     average_progress |-> Round1(Average(all_books)),
     books_by_month |-> BooksByMonth(all_books)]

\* a get_reading_stats that divides by len(all_books) without the guard:
\* ZeroDivisionError on an empty set
get_reading_stats_unguarded(req) ==
    LET query == Query(None, UserScope(get_current_user(req)), None)
    IN  IF Find(query) = {}
        THEN Result(books, ServerError("get_reading_stats"))
        ELSE Result(books, Reply("get_reading_stats", 200,
                                 ReadingStats(Find(query))))

\* a get_reading_stats that leaves the user_id key out of the filter
get_reading_stats_unscoped(store, req) ==
    Result(store, Reply("get_reading_stats", 200, ReadingStats(store)))

\* GET /stats answered from a given content of db.books
get_reading_stats_on(store, req) ==
    LET query == Query(None, UserScope(get_current_user(req)), None)
    IN  Result(store,
               Reply("get_reading_stats", 200,
                     ReadingStats({b \in store : Matches(b, query)})))

\* GET /stats
get_reading_stats_result(req) == get_reading_stats_on(books, req)

get_reading_stats(req) ==
    /\ Handle(req, get_reading_stats_result(req))
    /\ UNCHANGED <<inserted, createdBy>>

(***************************************************************************)
(* GET /books/search/{isbn}.  A text is the sequence of the pieces it is   *)
(* put together from.  The handler is suspended while a provider is being  *)
(* called; each answer_* step is the handler's run from one provider's     *)
(* answer to the next call or to the return.                               *)
(***************************************************************************)
PlaceholderPages == 250

\* ", ".join(names)
RECURSIVE Join(_)
Join(names) ==
    IF Len(names) = 0 THEN <<>>
    ELSE IF Len(names) = 1 THEN <<names[1]>>
    ELSE <<names[1], ", ">> \o Join(Tail(names))

\* f"https://covers.openlibrary.org/b/isbn/{isbn}-M.jpg"
OpenLibraryCover(isbn) ==
    <<"https://covers.openlibrary.org/b/isbn/", isbn, "-M.jpg">>

GoogleBookInfo(title, author, coverImage, totalPages, isbn) ==
    [title |-> title, author |-> author, coverImage |-> coverImage,
     totalPages |-> totalPages, isbn |-> isbn]

\* what a provider call ends in: kind is "timeout" or "error" (the call or
\* the decoding of its answer raised), "status" (an HTTP status other than
\* 200), "empty" (an answer without an entry for the ISBN) or "match", with
\* the entry in data
Outcome(kind, data) == [kind |-> kind, data |-> data]
Raised(outcome) == outcome.kind \in {"timeout", "error"}

\* a Google Books try block without its `except Exception`
google_books_uncaught(isbn, outcome) ==
    IF Raised(outcome)
    THEN Some(ServerError("search_book_by_isbn"))
    ELSE None

\* lines 332-357: the answer the Google Books block returns, None when the
\* handler goes on to the next provider
google_books(isbn, outcome) ==
    IF Raised(outcome) THEN None
    ELSE IF outcome.kind # "match" THEN None
    ELSE LET book_data == outcome.data
             thumbnail ==
                 IF book_data.imageLinks = None THEN None
                 ELSE IF book_data.imageLinks[1].thumbnail # None
                 THEN book_data.imageLinks[1].thumbnail
                 ELSE book_data.imageLinks[1].smallThumbnail
             cover_url == IF thumbnail = None THEN OpenLibraryCover(isbn)
                          ELSE <<thumbnail[1]>>
         IN  Some(Reply("search_book_by_isbn", 200,
                 GoogleBookInfo(
                     IF book_data.title = None THEN <<"Unknown Title">>
                     ELSE <<book_data.title[1]>>,
                     Join(IF book_data.authors = None THEN <<"Unknown Author">>
                          ELSE book_data.authors[1]),
                     cover_url,
                     IF book_data.pageCount = None THEN 0
                     ELSE book_data.pageCount[1],
                     isbn)))

\* lines 359-378: the Open Library block; the status code is not looked at
open_library(isbn, outcome) ==
    IF Raised(outcome) THEN None
    ELSE IF outcome.kind # "match" THEN None
    ELSE LET book_data == outcome.data
             names == Join(IF book_data.authors = None THEN <<>>
                           ELSE book_data.authors[1])
         IN  Some(Reply("search_book_by_isbn", 200,
                 GoogleBookInfo(
                     IF book_data.title = None THEN <<"Unknown Title">>
                     ELSE <<book_data.title[1]>>,
                     IF names = <<>> THEN <<"Unknown Author">> ELSE names,
                     OpenLibraryCover(isbn),
                     IF book_data.number_of_pages = None THEN 0
                     ELSE book_data.number_of_pages[1],
                     isbn)))

\* lines 445-452: what the DNB block is written to return for a record with
\* a title
DnbBookInfo(isbn, record_data) ==
    GoogleBookInfo(<<record_data.title[1]>>,
                   IF record_data.creator = None THEN <<"Unbekannter Autor">>
                   ELSE <<record_data.creator[1]>>,
                   OpenLibraryCover(isbn),
                   IF record_data.pages = None THEN PlaceholderPages
                   ELSE record_data.pages[1],
                   isbn)

\* lines 380-455: the DNB block.  `import re` at line 439 makes `re` a local
\* name of the whole function, unbound until that line runs: re.sub at line
\* 419, reached whenever the record has a title, raises UnboundLocalError,
\* which line 454 catches; a record without a title is not returned either
dnb(isbn, outcome) ==
    IF Raised(outcome) THEN None
    ELSE IF outcome.kind # "match" THEN None
    ELSE IF outcome.data.title # None THEN None
    ELSE None

\* a lookup that answers a total miss with 404
FallbackNotFound(isbn) == Reply("search_book_by_isbn", 404, "Book not found")

\* lines 457-465
Fallback(isbn) ==
    Reply("search_book_by_isbn", 200,
          GoogleBookInfo(<<"Book - ", isbn>>, <<"Unknown Author">>,
                         OpenLibraryCover(isbn), PlaceholderPages, isbn))

\* a lookup suspended in the call of a provider
Lookup(isbn, pc) == [op |-> "search_book_by_isbn", isbn |-> isbn, pc |-> pc]

SearchSame == UNCHANGED <<users, user_sessions, books, now, issued, inserted, createdBy>>

\* the handler up to its first await: the call of Google Books
search_book_by_isbn(isbn) ==
    /\ inflight' = inflight \cup {Lookup(isbn, "google")}
    /\ calls' = <<"google">>
    /\ UNCHANGED response
    /\ SearchSame

answer_google(q, outcome) ==
    LET answer == google_books(q.isbn, outcome)
    IN  /\ q.pc = "google"
        /\ IF answer # None
           THEN /\ response' = answer[1]
                /\ inflight' = inflight \ {q}
                /\ UNCHANGED calls
           ELSE /\ inflight' = (inflight \ {q}) \cup {Lookup(q.isbn, "openlibrary")}
                /\ calls' = Append(calls, "openlibrary")
                /\ UNCHANGED response
        /\ SearchSame

answer_open_library(q, outcome) ==
    LET answer == open_library(q.isbn, outcome)
    IN  /\ q.pc = "openlibrary"
        /\ IF answer # None
           THEN /\ response' = answer[1]
                /\ inflight' = inflight \ {q}
                /\ UNCHANGED calls
           ELSE /\ inflight' = (inflight \ {q}) \cup {Lookup(q.isbn, "dnb")}
                /\ calls' = Append(calls, "dnb")
                /\ UNCHANGED response
        /\ SearchSame

answer_dnb(q, outcome) ==
    LET answer == dnb(q.isbn, outcome)
    IN  /\ q.pc = "dnb"
        /\ response' = IF answer # None THEN answer[1] ELSE Fallback(q.isbn)
        /\ inflight' = inflight \ {q}
        /\ UNCHANGED calls
        /\ SearchSame

(***************************************************************************)
(* Inputs of the requests                                                  *)
(***************************************************************************)
\* the tokens a client can send: none, one it was issued, one it made up
TokensIn == {None, Some(UnknownToken)} \cup {Some(Tokens[i]) : i \in 1..issued}

\* requests that authenticate by cookie
CookieRequests == {Request(c, None) : c \in TokensIn}
\* requests with any combination of cookie and bearer header
Requests == {Request(c, b) : c \in TokensIn, b \in TokensIn}

BookIdsIn == Range(ObjectIds) \cup {MalformedId}

PagesIn == (-1)..(MaxPage + 1)
DatesIn == {-1}

IsbnIn == "9780439708180"

\* bodies of POST /books: the fields default to currentPage 0, status
\* "want_to_read", progress 0.0, dateAdded the time of the request, and any
\* value is accepted
BooksIn ==
    {Book(IsbnIn, MaxPage, 0, "want_to_read", Zero, now, None, uid) :
        uid \in {None, Some(UserIds[1])}}

BookUpdatesIn ==
    {BookUpdate(cp, st, None) :
        cp \in {None, Some(1)}, st \in {None, Some("read")}}

AnyBooksIn ==
    {Book(IsbnIn, tp, cp, st, pr, now, None, None) :
        tp \in (-1)..MaxPage, cp \in {0, MaxPage + 1},
        st \in {"want_to_read", "read", "abandoned"},
        pr \in {Zero, Frac(250, 1)}}

AnyBookUpdatesIn ==
    {BookUpdate(cp, st, df) :
        cp \in {None} \cup {Some(p) : p \in PagesIn},
        st \in {None} \cup {Some(v) : v \in StatusIn},
        df \in {None} \cup {Some(d) : d \in DatesIn}}

EmptyUpdate == BookUpdate(None, None, None)
RejectsIn(upd) == IF upd = EmptyUpdate THEN BOOLEAN ELSE {FALSE}

(***************************************************************************)
(* Specifications                                                          *)
(***************************************************************************)
Init ==
    /\ users = {}
    /\ user_sessions = {}
    /\ books = {}
    /\ now = 0
    /\ issued = 0
    /\ inserted = 0
    /\ createdBy = <<>>
    /\ inflight = {}
    /\ calls = <<>>
    /\ response = Reply("none", 200, None)

CanRegister == Cardinality(users) < Len(UserIds) /\ issued < Len(Tokens)

Register ==
    /\ CanRegister
    /\ \E email \in Emails : register(email, "pw1", "Ann")

AddBook ==
    /\ inserted < Len(ObjectIds)
    /\ \E req \in CookieRequests, book \in BooksIn : add_book(req, book)

GetAllBooks == \E req \in CookieRequests : get_all_books(req)

GetBooksByStatus ==
    \E req \in CookieRequests, status \in StatusValues :
        get_books_by_status(req, status)

GetBook == \E req \in CookieRequests, id \in BookIdsIn : get_book(req, id)

UpdateBook ==
    \E req \in CookieRequests, id \in BookIdsIn, upd \in BookUpdatesIn :
        \E rej \in RejectsIn(upd) : update_book(req, id, upd, rej)

DeleteBook == \E req \in CookieRequests, id \in BookIdsIn : delete_book(req, id)

GetReadingStats == \E req \in CookieRequests : get_reading_stats(req)

\* the book service under ownership: users register and work on the store
Next ==
    \/ Register
    \/ AddBook
    \/ GetAllBooks
    \/ GetBooksByStatus
    \/ GetBook
    \/ UpdateBook
    \/ DeleteBook
    \/ GetReadingStats

Spec == Init /\ [][Next]_vars

RegisterOne ==
    /\ users = {}
    /\ register("ann@x.org", "pw1", "Ann")

AddAnyBook ==
    /\ inserted = 0
    /\ \E req \in CookieRequests, book \in AnyBooksIn : add_book(req, book)

UpdateAnyBook ==
    \E req \in CookieRequests, upd \in AnyBookUpdatesIn :
        \E rej \in RejectsIn(upd) : update_book(req, ObjectIds[1], upd, rej)

\* the progress and status logic: one book, any payloads
NextBook ==
    \/ RegisterOne
    \/ AddAnyBook
    \/ UpdateAnyBook

SpecBook == Init /\ [][NextBook]_vars

Login ==
    /\ issued < Len(Tokens)
    /\ \E email \in Emails, password \in Passwords : login(email, password)

Logout == \E req \in Requests : logout(req)

GetMe == \E req \in Requests : get_me(req)

\* the auth service, with the clock running
NextAuth ==
    \/ Register
    \/ Login
    \/ Logout
    \/ GetMe
    \/ Tick

SpecAuth == Init /\ [][NextAuth]_vars

\* what the identity collaborator answers
SessionIdsIn == {None, Some("sid")}

FetchedIn ==
    {FetchError} \cup
    {Fetched(TRUE, SessionData(Some(e), Some("Ann"), None)) : e \in Emails}

CanStart ==
    /\ Cardinality(users) + Cardinality(inflight) < Len(UserIds)
    /\ issued + Cardinality(inflight) < Len(Tokens)

RegisterLookup ==
    /\ CanStart
    /\ \E email \in Emails : register_lookup(email, "pw1", "Ann")

ProcessSessionLookup ==
    /\ CanStart
    /\ \E session_id \in SessionIdsIn, fetched \in FetchedIn :
           process_session_lookup(session_id, fetched)

InsertUser == \E q \in inflight : insert_user(q)

InsertSession == \E q \in inflight : insert_session(q)

\* concurrent sign-ups: the steps of several requests interleave
NextRace ==
    \/ RegisterLookup
    \/ ProcessSessionLookup
    \/ InsertUser
    \/ InsertSession

SpecRace == Init /\ [][NextRace]_vars

FetchedAnyIn ==
    {FetchError} \cup
    {Fetched(TRUE, SessionData(e, n, p)) :
        e \in {None} \cup {Some(x) : x \in Emails},
        n \in {None, Some("Ann"), Some("Anna")},
        p \in {None, Some("pic.png")}}

\* an exchange that needs no more user ids than UserIds holds
HasRoom(fetched) ==
    \/ Cardinality(users) < Len(UserIds)
    \/ /\ fetched.session_data.email # None
       /\ \E u \in users : u.email = fetched.session_data.email[1]

ProcessSession ==
    /\ issued < Len(Tokens)
    /\ \E session_id \in SessionIdsIn, fetched \in FetchedAnyIn :
           /\ HasRoom(fetched)
           /\ process_session(session_id, fetched)

\* sign-up by password and by the identity collaborator, and login
NextFed ==
    \/ Register
    \/ ProcessSession
    \/ Login

SpecFed == Init /\ [][NextFed]_vars

\* any string is an ISBN for the path parameter
IsbnsIn == {IsbnIn, "000"}

NoMatchIn == {Outcome(k, None) : k \in {"timeout", "error", "status", "empty"}}

\* items[0].volumeInfo of the Google Books answer
VolumeInfo(title, authors, pageCount, imageLinks) ==
    [title |-> title, authors |-> authors, pageCount |-> pageCount,
     imageLinks |-> imageLinks]

GoogleOutcomesIn ==
    NoMatchIn \cup
    {Outcome("match", VolumeInfo(t, a, n, i)) :
        t \in {None, Some("Dune")},
        a \in {None, Some(<<>>), Some(<<"Herbert">>), Some(<<"Good", "Evil">>)},
        n \in {None, Some(MaxPage)},
        i \in {None,
               Some([thumbnail |-> None, smallThumbnail |-> None]),
               Some([thumbnail |-> Some("t.jpg"), smallThumbnail |-> Some("s.jpg")]),
               Some([thumbnail |-> None, smallThumbnail |-> Some("s.jpg")])}}

OpenLibraryOutcomesIn ==
    NoMatchIn \cup
    {Outcome("match", [title |-> t, authors |-> a, number_of_pages |-> n]) :
        t \in {None, Some("Dune")},
        a \in {None, Some(<<>>), Some(<<"Herbert">>), Some(<<"Good", "Evil">>)},
        n \in {None, Some(MaxPage)}}

DnbOutcomesIn ==
    NoMatchIn \cup
    {Outcome("match", [title |-> t, creator |-> a, pages |-> n]) :
        t \in {None, Some("Dune")},
        a \in {None, Some("Herbert")},
        n \in {None, Some(MaxPage)}}

SearchBook ==
    /\ inflight = {}
    /\ \E isbn \in IsbnsIn : search_book_by_isbn(isbn)

AnswerGoogle ==
    \E q \in inflight, outcome \in GoogleOutcomesIn : answer_google(q, outcome)

AnswerOpenLibrary ==
    \E q \in inflight, outcome \in OpenLibraryOutcomesIn :
        answer_open_library(q, outcome)

AnswerDnb ==
    \E q \in inflight, outcome \in DnbOutcomesIn : answer_dnb(q, outcome)

\* ISBN lookups, one after the other
NextSearch ==
    \/ SearchBook
    \/ AnswerGoogle
    \/ AnswerOpenLibrary
    \/ AnswerDnb

SpecSearch == Init /\ [][NextSearch]_vars

\* bodies of POST /books that may carry a dateFinished
DatedBooksIn ==
    {Book(IsbnIn, tp, 0, st, Zero, now, df, None) :
        tp \in {0, MaxPage}, st \in {"want_to_read", "read"},
        df \in {None} \cup {Some(d) : d \in DatesIn}}

StatusUpdatesIn ==
    {BookUpdate(cp, st, df) :
        cp \in {None, Some(1)},
        st \in {None} \cup {Some(v) : v \in StatusValues},
        df \in {None} \cup {Some(d) : d \in DatesIn}}

AddDatedBook ==
    /\ inserted = 0
    /\ \E book \in DatedBooksIn : add_book(NoCredentials, book)

UpdateDatedBook ==
    \E upd \in StatusUpdatesIn :
        \E rej \in RejectsIn(upd) :
            update_book(NoCredentials, ObjectIds[1], upd, rej)

\* one book through its statuses while the clock runs
NextDates ==
    \/ AddDatedBook
    \/ UpdateDatedBook
    \/ Tick

SpecDates == Init /\ [][NextDates]_vars

RaceUpdatesIn ==
    {BookUpdate(cp, st, None) :
        cp \in {None, Some(1)},
        st \in {None, Some("read"), Some("abandoned")}} \ {EmptyUpdate}

AddOneBook ==
    /\ inserted = 0
    /\ add_book(NoCredentials,
                Book(IsbnIn, MaxPage, 0, "want_to_read", Zero, now, None, None))

\* at most two update_book requests in a run
UpdateBookFind ==
    /\ Cardinality(inflight) < 2
    /\ \E upd \in RaceUpdatesIn :
           update_book_find(NoCredentials, ObjectIds[1], upd)

UpdateBookWrite ==
    \E q \in inflight :
        \E rej \in (IF EmptySet(q.update_data) THEN BOOLEAN ELSE {FALSE}) :
            update_book_write(q, rej)

UpdateBookReread == \E q \in inflight : update_book_reread(q)

DeleteOneBook == delete_book(NoCredentials, ObjectIds[1])

\* two updates and a delete of one book, their database calls interleaved
NextUpdateRace ==
    \/ AddOneBook
    \/ UpdateBookFind
    \/ UpdateBookWrite
    \/ UpdateBookReread
    \/ DeleteOneBook

SpecUpdateRace == Init /\ [][NextUpdateRace]_vars

ProcessKnownSession ==
    /\ issued < Len(Tokens)
    /\ \E fetched \in FetchedIn :
           /\ HasRoom(fetched)
           /\ process_session(Some("sid"), fetched)

LoginAny ==
    /\ issued < Len(Tokens)
    /\ \E email \in Emails : login(email, "pw1")

LogoutAny ==
    \E req \in CookieRequests \cup {Request(None, Some(UnknownToken))} :
        logout(req)

GetMeAny ==
    \E req \in CookieRequests \cup
                {Request(None, Some(Tokens[i])) : i \in 1..issued} :
        get_me(req)

\* every way a session is made and unmade, with the clock running
NextSessions ==
    \/ RegisterOne
    \/ ProcessKnownSession
    \/ LoginAny
    \/ LogoutAny
    \/ GetMeAny
    \/ Tick

SpecSessions == Init /\ [][NextSessions]_vars

(***************************************************************************)
(* Properties                                                              *)
(***************************************************************************)
\* the ids of the books a list answer holds
IdsIn(reply) == {b.id : b \in reply.body}

\* C1: ownership isolation.  A book added under a valid session of user A is
\* never in the answer of get_all_books, get_books_by_status, get_book or
\* update_book called with a valid session of another user B, and B's
\* update_book and delete_book leave the stored document as it is (B's get,
\* update and delete of that book fail).
C1_OwnershipIsolation ==
    \A b \in books : \A req \in Requests :
        LET user == get_current_user(req)
        IN  (/\ createdBy[b._id] # None
             /\ user # None
             /\ Some(user[1]._id) # createdBy[b._id])
            =>
            /\ b._id \notin IdsIn(get_all_books_result(req).response)
            /\ \A st \in StatusIn :
                  b._id \notin IdsIn(get_books_by_status_result(req, st).response)
            /\ get_book_result(req, b._id).response.status # 200
            /\ \A upd \in BookUpdatesIn, rej \in BOOLEAN :
                  LET r == update_book_result(req, b._id, upd, rej)
                  IN  r.response.status # 200 /\ r.books = books
            /\ LET r == delete_book_result(req, b._id)
               IN  r.response.status # 200 /\ r.books = books

\* user_1 added a book, user_2 holds a valid session, and a listing that
\* came back empty can only be user_2's
C1_Witness ==
    /\ \E b \in books : createdBy[b._id] = Some(UserIds[1])
    /\ \E s \in user_sessions : s.user_id = UserIds[2] /\ ~Expired(s, now)
    /\ response.op = "get_all_books"
    /\ response.body = {}

\* a book owned by a registered user
OwnedByRegistered(b) == b.user_id # None /\ FindUser(b.user_id[1]) # {}

\* C2: a request without a valid session works on the books without owner
\* only: it never lists, gets, updates or deletes a book whose owner is a
\* registered user.
C2_AnonymousPartition ==
    \A b \in books : \A req \in Requests :
        (OwnedByRegistered(b) /\ get_current_user(req) = None)
        =>
        /\ b._id \notin IdsIn(get_all_books_result(req).response)
        /\ \A st \in StatusIn :
              b._id \notin IdsIn(get_books_by_status_result(req, st).response)
        /\ get_book_result(req, b._id).response.status # 200
        /\ \A upd \in BookUpdatesIn, rej \in BOOLEAN :
              update_book_result(req, b._id, upd, rej).books = books
        /\ delete_book_result(req, b._id).books = books

\* C3: session lifecycle.  The token of every stored session resolves to the
\* owning user exactly when now < expires_at; when now >= expires_at it
\* resolves to none and get_current_user removes the session document.
C3_SessionLifecycle ==
    \A s \in user_sessions :
        LET req == Request(Some(s.session_token), None)
        IN  /\ now < s.expires_at =>
                 /\ get_current_user(req) # None
                 /\ get_current_user(req)[1]._id = s.user_id
            /\ now >= s.expires_at =>
                 /\ get_current_user(req) = None
                 /\ s \notin SessionsAfterAuth(req)

\* C10: register with an email of a stored user answers the conflict error
\* (HTTP 400 "Email already registered") and changes neither db.users nor
\* db.user_sessions.
C10_RegisterConflict ==
    [][\A email \in Emails, password \in Passwords :
         ((\E u \in users : u.email = email) /\ register(email, password, "Ann"))
         => /\ response'.op = "register"
            /\ response'.status = 400
            /\ response'.body = "Email already registered"
            /\ users' = users
            /\ user_sessions' = user_sessions
            /\ issued' = issued]_vars

\* a register was refused while a user with an email is stored
C10_Witness ==
    /\ response.op = "register"
    /\ response.status = 400
    /\ users # {}

\* the books a request may work on: the filter of the handlers, without _id
InScope(req) == Find(Query(None, UserScope(get_current_user(req)), None))

\* the document with a given _id in a store
Stored(store, id) == CHOOSE d \in store : d._id = id

\* min(100, 100*p/t) for t > 0, written out from its meaning
ExpectedProgress(p, t) == IF p >= t THEN <<100, 1>> ELSE Frac(100 * p, t)

Finished(doc) ==
    /\ doc.status = "read"
    /\ doc.currentPage = doc.totalPages
    /\ doc.progress = <<100, 1>>
    /\ doc.dateFinished # None

\* C4: for every book in the scope of the request, whatever its values and
\* whatever else the body supplies, update_book with status "read" succeeds
\* and both the answer and the stored document have status read, currentPage
\* equal to totalPages, progress 100 and a dateFinished.
C4_ReadCompletes ==
    \A req \in CookieRequests : \A b \in InScope(req) :
        \A upd \in AnyBookUpdatesIn :
            upd.status = Some("read") =>
                LET r == update_book_result(req, b._id, upd, FALSE)
                IN  /\ r.response.status = 200
                    /\ r.response.body.id = b._id
                    /\ r.response.body.totalPages = b.totalPages
                    /\ Finished(r.response.body)
                    /\ Finished(Stored(r.books, b._id))

\* an update that set status "read" together with an explicit dateFinished
\* has answered
C4_Witness ==
    /\ response.op = "update_book"
    /\ response.status = 200
    /\ response.body.status = "read"
    /\ response.body.currentPage = MaxPage
    /\ response.body.totalPages = MaxPage
    /\ response.body.dateFinished = Some(-1)

\* C5 as stated: for a book with totalPages t > 0, any update_book that
\* supplies currentPage p yields currentPage p and progress min(100, 100*p/t).
C5_ProgressFromPage ==
    \A req \in CookieRequests : \A b \in InScope(req) :
        \A upd \in AnyBookUpdatesIn :
            (b.totalPages > 0 /\ upd.currentPage # None) =>
                LET r == update_book_result(req, b._id, upd, FALSE)
                    p == upd.currentPage[1]
                IN  /\ r.response.status = 200
                    /\ r.response.body.currentPage = p
                    /\ r.response.body.progress = ExpectedProgress(p, b.totalPages)

\* C5 amended: for a book with totalPages t > 0, any update_book that
\* supplies currentPage p and does not set status "read" yields, in the
\* answer and in the store, currentPage p and progress min(100, 100*p/t).
C5_ProgressFromPageUnlessRead ==
    \A req \in CookieRequests : \A b \in InScope(req) :
        \A upd \in AnyBookUpdatesIn :
            (b.totalPages > 0 /\ upd.currentPage # None /\ upd.status # Some("read")) =>
                LET r == update_book_result(req, b._id, upd, FALSE)
                    p == upd.currentPage[1]
                    e == ExpectedProgress(p, b.totalPages)
                IN  /\ r.response.status = 200
                    /\ r.response.body.currentPage = p
                    /\ r.response.body.progress = e
                    /\ Stored(r.books, b._id).currentPage = p
                    /\ Stored(r.books, b._id).progress = e

\* an update has answered with a page past the end and the clamped progress
C5_Witness ==
    /\ response.op = "update_book"
    /\ response.status = 200
    /\ response.body.totalPages = MaxPage
    /\ response.body.currentPage = MaxPage + 1
    /\ response.body.progress = <<100, 1>>
    /\ response.body.status = "currently_reading"

\* C6: every stored book with status read has currentPage equal to
\* totalPages, progress 100 and a dateFinished.
C6_ReadInvariant ==
    \A b \in books : b.status = "read" => Finished(b)

\* C7: every stored book with totalPages > 0 has progress equal to
\* min(100, currentPage/totalPages*100).
C7_ProgressInvariant ==
    \A b \in books :
        b.totalPages > 0 => b.progress = ExpectedProgress(b.currentPage, b.totalPages)

\* C8: every stored book has totalPages >= 0, 0 <= currentPage <= totalPages
\* and 0 <= progress <= 100.
C8_RangeInvariant ==
    \A b \in books :
        /\ b.totalPages >= 0
        /\ 0 <= b.currentPage /\ b.currentPage <= b.totalPages
        /\ ~FracLess(b.progress, <<0, 1>>)
        /\ ~FracLess(<<100, 1>>, b.progress)

\* C9: the status of every stored book is one of want_to_read,
\* currently_reading, read, and update_book takes a book from any of the
\* three to any of the three.
C9_StatusInvariant ==
    /\ \A b \in books : b.status \in StatusValues
    /\ \A req \in CookieRequests : \A b \in InScope(req) :
          \A to \in StatusValues :
              LET r == update_book_result(req, b._id, BookUpdate(None, Some(to), None), FALSE)
              IN  r.response.status = 200 /\ r.response.body.status = to

\* C11: in every reachable state no two stored users share an email, under
\* any interleaving of concurrent register and process_session requests.
C11_EmailUnique ==
    \A u1 \in users, u2 \in users : u1.email = u2.email => u1 = u2

\* C12: login answers 401 when the email is unknown, when the stored user
\* has no password hash, or when the password does not verify; it then
\* creates no session and leaves the stores unchanged.
C12_LoginFailure ==
    [][\A email \in Emails, password \in Passwords :
          (/\ login(email, password)
           /\ \A u \in users : u.email = email =>
                  \/ u.password_hash = None
                  \/ u.password_hash # Some(Hash(password)))
          => /\ response'.status = 401
             /\ UNCHANGED <<users, user_sessions, books, issued>>]_vars

\* every email belongs to a federated-only account and a login was refused
C12_Witness ==
    /\ response = Reply("login", 401, "Invalid credentials")
    /\ \A email \in Emails :
           \E u \in users : u.email = email /\ u.password_hash = None

\* C13: after logout with a session token, carried in the cookie or in the
\* Authorization header, no session record for that token remains and the
\* token no longer resolves to a user; logout always succeeds.
C13_LogoutRevokes ==
    [][\A req \in Requests :
          logout(req) =>
              /\ response'.status = 200
              /\ SessionToken(req) # None =>
                     /\ \A s \in user_sessions' :
                            s.session_token # SessionToken(req)[1]
                     /\ get_current_user(req)' = None]_vars

\* the exchanges the collaborator answers with an email and a name
UsableIn ==
    {f \in FetchedAnyIn :
        f.ok /\ f.session_data.email # None /\ f.session_data.name # None}

\* C14: process_session upserts the user by email: it creates exactly one
\* user when none has the email; otherwise it creates none and sets the
\* stored user's name and picture to the collaborator's values; the new
\* session belongs to that user.
C14_Upsert ==
    [][\A fetched \in UsableIn :
          process_session(Some("sid"), fetched) =>
              LET session_data == fetched.session_data
                  known == {u \in users : u.email = session_data.email[1]}
                  after == {u \in users' : u.email = session_data.email[1]}
              IN  /\ Cardinality(after) = 1
                  /\ known = {} => users' \ users = after
                  /\ known # {} =>
                         /\ {u._id : u \in users'} = {u._id : u \in users}
                         /\ \A u \in after :
                                /\ u.name = session_data.name[1]
                                /\ u.picture = session_data.picture
                  /\ \E s \in user_sessions' \ user_sessions :
                         /\ user_sessions' = user_sessions \cup {s}
                         /\ \A u \in after : s.user_id = u._id]_vars

\* the exchanges where the collaborator fails or answers without an email
UnusableIn ==
    {f \in FetchedAnyIn : ~f.ok \/ f.session_data.email = None}

\* C15: process_session answers 401 whenever the collaborator errors or
\* returns no usable data, and then creates no user and no session.
C15_ExchangeFailure ==
    [][\A fetched \in UnusableIn :
          process_session(Some("sid"), fetched) =>
              /\ response'.status = 401
              /\ UNCHANGED <<users, user_sessions>>]_vars

\* the books of a request's scope that have a given id
InScopeWithId(req, id) == {b \in InScope(req) : b._id = id}

\* C16: get_book answers 404 for a well-formed id that matches no book in the
\* caller's scope, and 400 only for an id that is not well-formed.
C16_GetBookErrors ==
    \A req \in Requests, id \in BookIdsIn :
        LET status == get_book_result(req, id).response.status
        IN  /\ (IsObjectId(id) /\ InScopeWithId(req, id) = {}) => status = 404
            /\ status = 400 => ~IsObjectId(id)

\* C17: delete_book on a well-formed id that matches no book in the caller's
\* scope answers 404 and leaves db.books as it is, in every state (so on
\* each repeated call too); a successful delete_book removes exactly the
\* addressed book and leaves no book with that id.
C17_DeleteOnce ==
    \A req \in Requests, id \in Range(ObjectIds) :
        LET result == delete_book_result(req, id)
            addressed == InScopeWithId(req, id)
        IN  IF addressed = {}
            THEN /\ result.response.status = 404
                 /\ result.books = books
            ELSE /\ result.response.status = 200
                 /\ Cardinality(addressed) = 1
                 /\ result.books = books \ addressed
                 /\ \A d \in result.books : d._id # id

\* every book that was added has been deleted, and one more delete_book of a
\* well-formed id was answered 404
C17_Witness ==
    /\ inserted = Len(ObjectIds)
    /\ books = {}
    /\ response = Reply("delete_book", 404, "Book not found")

\* C18: add_book stores the book with the user of the request's valid session
\* as owner, and with no owner when there is no valid session, whatever
\* user_id the body carries.
C18_OwnerFromSession ==
    \A req \in Requests, book \in BooksIn :
        inserted < Len(ObjectIds) =>
            LET result == add_book_result(req, book)
                doc == Stored(result.books, ObjectIds[inserted + 1])
            IN  doc.user_id = SessionUserId(req)

\* C19: update_book changes no field other than the ones supplied and the
\* ones derived from them, and no other document: _id, user_id, isbn,
\* totalPages and dateAdded are never changed; status only when supplied;
\* currentPage and progress only when currentPage or status "read" is
\* supplied; dateFinished only when it or status "read" is supplied.
C19_PartialUpdate ==
    \A req \in CookieRequests, id \in BookIdsIn, upd \in AnyBookUpdatesIn :
        \A rej \in RejectsIn(upd) :
            LET result == update_book_result(req, id, upd, rej)
                addressed == {b \in books : b._id = id}
                read == upd.status = Some("read")
            IN  /\ {d \in result.books : d._id # id} = books \ addressed
                /\ result.response.status # 200 => result.books = books
                /\ \A b \in addressed :
                       LET d == Stored(result.books, id)
                       IN  /\ d.user_id = b.user_id
                           /\ d.isbn = b.isbn
                           /\ d.totalPages = b.totalPages
                           /\ d.dateAdded = b.dateAdded
                           /\ upd.status = None => d.status = b.status
                           /\ (upd.currentPage = None /\ ~read) =>
                                  /\ d.currentPage = b.currentPage
                                  /\ d.progress = b.progress
                           /\ (upd.dateFinished = None /\ ~read) =>
                                  d.dateFinished = b.dateFinished

\* an update of the page alone was applied to a book that is not the
\* default one
C19_Witness ==
    /\ response.op = "update_book"
    /\ response.status = 200
    /\ \E b \in books :
           /\ b.currentPage = 1
           /\ b.status = "abandoned"
           /\ b.isbn = IsbnIn

TotalMiss ==
    /\ inflight = {}
    /\ Len(calls) = 3
    /\ response.op = "search_book_by_isbn"

C22_EmptyStats ==
    \A req \in Requests :
        InScope(req) = {} =>
            get_reading_stats_result(req).response =
                Reply("get_reading_stats", 200,
                      [total_books |-> 0, books_read |-> 0, books_reading |-> 0,
                       books_to_read |-> 0, total_pages_read |-> 0,
                       average_progress |-> <<0, 1>>, books_by_month |-> <<>>])

\* a user without books asked for the stats while the store holds a book
C22_Witness ==
    /\ response.op = "get_reading_stats"
    /\ response.body.total_books = 0
    /\ books # {}

\* C23: update_book with status "read" and an explicit dateFinished stores
\* the explicit value; with status "read" and no dateFinished it stores the
\* time of the call, whatever dateFinished the book had.
C23_DateFinished ==
    \A b \in books, upd \in StatusUpdatesIn :
        upd.status = Some("read") =>
            LET r == update_book_result(NoCredentials, b._id, upd, FALSE)
                expected == IF upd.dateFinished # None THEN upd.dateFinished
                            ELSE Some(now)
            IN  /\ r.response.status = 200
                /\ r.response.body.dateFinished = expected
                /\ Stored(r.books, b._id).dateFinished = expected

\* a book added on an earlier day was set to read, without a dateFinished,
\* on the day of the answer
C23_Witness ==
    /\ response.op = "update_book"
    /\ response.status = 200
    /\ response.body.status = "read"
    /\ response.body.dateAdded < now
    /\ response.body.dateFinished = Some(now)

\* C24: for a book with totalPages 0, after an update_book that supplies
\* currentPage and does not set status "read", progress is 0.
C24_ZeroPagesProgress ==
    \A req \in CookieRequests : \A b \in InScope(req) :
        \A upd \in AnyBookUpdatesIn :
            (/\ b.totalPages = 0
             /\ upd.currentPage # None
             /\ upd.status # Some("read")) =>
                LET r == update_book_result(req, b._id, upd, FALSE)
                IN  /\ r.response.status = 200
                    /\ r.response.body.progress = <<0, 1>>
                    /\ Stored(r.books, b._id).progress = <<0, 1>>

\* C25: an update_book that supplies only a status, want_to_read or
\* currently_reading, for a book whose status is read changes the status and
\* leaves currentPage, progress and dateFinished as they were.
C25_LeavingRead ==
    \A req \in CookieRequests : \A b \in InScope(req) :
        \A st \in {"want_to_read", "currently_reading"} :
            b.status = "read" =>
                LET r == update_book_result(req, b._id,
                                            BookUpdate(None, Some(st), None), FALSE)
                    d == Stored(r.books, b._id)
                IN  /\ r.response.status = 200
                    /\ d.status = st
                    /\ d.currentPage = b.currentPage
                    /\ d.progress = b.progress
                    /\ d.dateFinished = b.dateFinished
                    /\ r.response.body = book_helper(d)

\* a book that was finished by an update is back on the reading list with
\* its page, progress and dateFinished
C25_Witness ==
    /\ response.op = "update_book"
    /\ response.status = 200
    /\ response.body.status = "currently_reading"
    /\ response.body.totalPages = MaxPage
    /\ response.body.currentPage = MaxPage
    /\ response.body.progress = <<100, 1>>
    /\ response.body.dateFinished = Some(now)

\* C26: a successful login adds exactly one session document, owned by the
\* user who logged in and expiring 7 days after the login, and every session
\* issued before is still stored and resolves to the user it resolved to.
C26_LoginAddsSession ==
    [][\A email \in Emails, password \in Passwords :
          (/\ issued < Len(Tokens)
           /\ login(email, password)
           /\ response'.status = 200) =>
              /\ \E s \in user_sessions' \ user_sessions :
                     /\ user_sessions' = user_sessions \cup {s}
                     /\ s.session_token = response'.body.set_cookie
                     /\ \A t \in user_sessions : t.session_token # s.session_token
                     /\ \E u \in users : u.email = email /\ u._id = s.user_id
                     /\ s.expires_at = now + 7
              /\ \A req \in Requests :
                     get_current_user(req)' = get_current_user(req)]_vars

\* a login has just been answered while an earlier session of the same user,
\* issued on an earlier day, is still stored and valid
C26_Witness ==
    /\ response.op = "login"
    /\ response.status = 200
    /\ \E s \in user_sessions, t \in user_sessions :
           /\ s.session_token = response.body.set_cookie
           /\ s.expires_at = now + SessionDays
           /\ t.user_id = s.user_id
           /\ t.expires_at < s.expires_at
           /\ ~Expired(t, now)

ProviderOrder == <<"google", "openlibrary", "dnb">>

\* C27: the lookup is a sequential ordered fallback: the providers called
\* are a prefix of Google Books, Open Library, DNB (each at most once, at
\* most three calls); the next provider is called exactly when the one
\* before raised or had no match; and the answer is the result of the first
\* provider with a match.
C27_OrderedFallback ==
    /\ [](/\ Len(calls) <= 3
          /\ calls = SubSeq(ProviderOrder, 1, Len(calls))
          /\ \A q \in inflight : calls # <<>> /\ q.pc = calls[Len(calls)])
    /\ [][\A q \in inflight :
             /\ \A outcome \in GoogleOutcomesIn :
                    answer_google(q, outcome) =>
                        IF outcome.kind = "match"
                        THEN /\ response' = google_books(q.isbn, outcome)[1]
                             /\ inflight' = {} /\ calls' = calls
                        ELSE /\ calls' = Append(calls, "openlibrary")
                             /\ response' = response
             /\ \A outcome \in OpenLibraryOutcomesIn :
                    answer_open_library(q, outcome) =>
                        IF outcome.kind = "match"
                        THEN /\ response' = open_library(q.isbn, outcome)[1]
                             /\ inflight' = {} /\ calls' = calls
                        ELSE /\ calls' = Append(calls, "dnb")
                             /\ response' = response
             /\ \A outcome \in DnbOutcomesIn :
                    answer_dnb(q, outcome) =>
                        /\ inflight' = {} /\ calls' = calls
                        /\ (outcome.kind = "match" /\ outcome.data.title # None) =>
                               response' =
                                   Reply("search_book_by_isbn", 200,
                                         DnbBookInfo(q.isbn, outcome.data))]_vars

\* C28: under any interleaving with a delete_book of the same book,
\* update_book on a well-formed id answers with the updated record or fails
\* with 404; it never answers 400 "Invalid book ID".
C28_UpdateOutcomes ==
    response.op = "update_book" =>
        \/ response.status = 404
        \/ /\ response.status = 200
           /\ response.body.id = ObjectIds[1]

\* update_book with body x, then with body y, on document b, one call
\* after the other
Serial(b, x, y) ==
    LET b1 == ApplySet(b, UpdateData(b, x, now))
    IN  ApplySet(b1, UpdateData(b1, y, now))

\* C29: when two update_book calls on the same book have both written, in
\* whatever order their reads and writes interleaved, the stored document
\* is the one that results from running the two calls one after the other
\* in some order on the document the first of them read.
C29_Serializable ==
    \A q1 \in inflight, q2 \in inflight, b \in books :
        (/\ q1.rid = 1 /\ q2.rid = 2
         /\ q1.pc \in {"find_one", "done"}
         /\ q2.pc \in {"find_one", "done"}) =>
            \/ b = Serial(q1.book, q1.book_update, q2.book_update)
            \/ b = Serial(q1.book, q2.book_update, q1.book_update)

\* two updates that both read the book before either wrote have both
\* written and answered, and the book shows the effect of both
C29_Witness ==
    \E q1 \in inflight, q2 \in inflight, b \in books :
        /\ q1.rid = 1 /\ q2.rid = 2
        /\ q1.pc = "done" /\ q2.pc = "done"
        /\ q1.book = q2.book
        /\ q1.book_update = BookUpdate(Some(1), None, None)
        /\ q2.book_update = BookUpdate(None, Some("abandoned"), None)
        /\ b.currentPage = 1 /\ b.status = "abandoned"
        /\ response.op = "update_book" /\ response.status = 200

\* the requests that carry one token that was issued
IssuedRequests ==
    {Request(Some(Tokens[i]), None) : i \in 1..issued}
        \cup {Request(None, Some(Tokens[i])) : i \in 1..issued}

\* C30: a session token that was issued and no longer resolves to a user
\* does not resolve to a user after any further step (register, login,
\* process_session, logout, get_me or the passage of time).
C30_NoResurrection ==
    [][\A req \in IssuedRequests :
          get_current_user(req) = None => get_current_user(req)' = None]_vars

\* after the clock passed the first sessions' expiry, the two earlier tokens
\* are gone from db.user_sessions (logged out, or found expired and removed)
\* and a later login has been answered with the third token
C30_Witness ==
    /\ issued = Len(Tokens)
    /\ response.op = "login"
    /\ response.status = 200
    /\ Cardinality(user_sessions) = 1
    /\ \A s \in user_sessions : s.session_token = Tokens[3]
    /\ now > SessionDays

\* C31: in every result of get_reading_stats over the books stored by
\* add_book and update_book, total_books is the sum of books_read,
\* books_reading and books_to_read.
C31_CountsAddUp ==
    \A req \in Requests :
        LET stats == get_reading_stats_result(req).response.body
        IN  stats.total_books =
                stats.books_read + stats.books_reading + stats.books_to_read

\* the books of a store whose user_id is the given user
OwnedBy(store, user_id) == {b \in store : b.user_id = Some(user_id)}

\* books that are not the given user's: of another user or without owner
ForeignBooksIn(user_id) ==
    {[_id |-> "b9", isbn |-> IsbnIn, totalPages |-> MaxPage, currentPage |-> 1,
      status |-> st, progress |-> Frac(100, MaxPage), dateAdded |-> 0,
      dateFinished |-> Some(0), user_id |-> owner] :
        st \in {"read"},
        owner \in {None} \cup {Some(u) : u \in Range(UserIds) \ {user_id}}}

\* C32: the result of get_reading_stats for a request with a valid session
\* of user A depends on A's books alone: it is the same on the store as it
\* is and on every store that holds the same books of A and any other books
\* of other users and without owner.
C32_StatsNoninterference ==
    \A req \in Requests :
        LET user == get_current_user(req)
        IN  user # None =>
                \A others \in SUBSET ForeignBooksIn(user[1]._id) :
                    get_reading_stats_on(
                        OwnedBy(books, user[1]._id) \cup others, req).response
                        = get_reading_stats_result(req).response

\* the store holds two books, one of them without owner, and the statistics
\* that were answered count one book: the request was a user's
C32_Witness ==
    /\ response.op = "get_reading_stats"
    /\ response.body.total_books = 1
    /\ Cardinality(books) = 2
    /\ \E b \in books : b.user_id = None
    /\ \E b \in books : b.user_id # None

\* requests whose cookie may also be the empty string
CookieAndHeaderRequests ==
    {Request(c, b) : c \in TokensIn \cup {Some("")}, b \in TokensIn}

\* C33 as stated: whenever a request carries a session_token cookie, the
\* cookie alone decides: the request resolves to what the same request
\* without the Authorization header resolves to.
C33_CookieAloneDecides ==
    \A req \in CookieAndHeaderRequests :
        req.cookie # None =>
            get_current_user(req) = get_current_user(Request(req.cookie, None))

\* C33: the Authorization header is consulted only when the request carries
\* no session_token cookie or an empty one.  A request with a non-empty
\* cookie resolves to what the cookie alone resolves to, so with an unknown
\* or expired cookie token and a valid bearer token it resolves to no user;
\* a request with no cookie or an empty one resolves to what the header
\* alone resolves to.
C33_NonEmptyCookieDecides ==
    \A req \in CookieAndHeaderRequests :
        /\ ~Falsy(req.cookie) =>
              get_current_user(req) = get_current_user(Request(req.cookie, None))
        /\ Falsy(req.cookie) =>
              get_current_user(req) = get_current_user(Request(None, req.bearer))

\* get_me answered 401 while one issued token resolves to a user and another
\* one is stored expired or is stored no more: a request with the second as
\* cookie and the first as bearer token resolves to no user
C33_Witness ==
    /\ response.op = "get_me"
    /\ response.status = 401
    /\ \E i, j \in 1..issued :
          /\ get_current_user(Request(None, Some(Tokens[i]))) # None
          /\ get_current_user(Request(Some(Tokens[j]), None)) = None
          /\ get_current_user(Request(Some(Tokens[j]), Some(Tokens[i]))) = None

====
